---- MODULE Spec2Model ----
(***************************************************************************)
(* NADG master orchestrator (src/master-app/app.py) and worker node        *)
(* (src/worker-node/main.py): the dispatch-and-failover engine.            *)
(*                                                                         *)
(* A run is one call of distribute_tasks(tasks, workers).  Every subtask   *)
(* is one coroutine send_task_with_retry; asyncio runs a coroutine without *)
(* interruption between two awaits, and the only await of the retry loop   *)
(* is the HTTP call of send_task_to_worker (the Supabase client calls of   *)
(* get_active_workers and mark_worker_offline are synchronous).  So one    *)
(* step of the model is: a reply arrives for subtask i, the coroutine runs *)
(* from there to its next HTTP call or to its return.                      *)
(*                                                                         *)
(* Worker records are identified with their id; vm_url is a function of    *)
(* the id and is not modelled separately.                                  *)
(***************************************************************************)
EXTENDS Integers, Sequences, FiniteSets, TLC

Range(f) == {f[k] : k \in DOMAIN f}
Last(q) == q[Len(q)]

\* ---------------------------------------------------------------- bounds
MaxWorkers == 4
MaxTasks == 3
\* A run has at most MaxLoad workers and subtasks together.
MaxLoad == 5

\* ------------------------------------------------------ program constants
max_retries == 3

NoneId == 0          \* Python None in a worker_id / task_index position
NoHeader == "None"   \* Header(None): the X-NADG-AUTH header is absent

Tokens == {"", "s1", "s2"}

\* --------------------------------------------------------- worker node
\* The four ways subprocess.run ends inside execute_task.
ExecOutcomes == {"exit0", "nonzero", "TimeoutExpired", "Exception"}

NoBody == [task_id |-> -1, status |-> "", detail |-> ""]

HttpReply(code, body) == [code |-> code, json |-> TRUE, body |-> body]

\* Variant: the header is compared only when it is present and non-empty
\* (if x_nadg_auth and x_nadg_auth != NADG_AUTH_TOKEN).
verify_auth_token_if_present(secret, x_nadg_auth) ==
    IF secret = "" THEN [code |-> 0, detail |-> ""]
    ELSE IF x_nadg_auth \notin {NoHeader, "", secret}
         THEN [code |-> 401, detail |-> "Invalid authentication token"]
    ELSE [code |-> 0, detail |-> ""]

\* verify_auth_token: 0 when the request passes, else the status raised.
verify_auth_token(secret, x_nadg_auth) ==
    IF secret = "" THEN [code |-> 0, detail |-> ""]
    ELSE IF x_nadg_auth = NoHeader
         THEN [code |-> 401, detail |-> "Missing X-NADG-AUTH header"]
    ELSE IF x_nadg_auth # secret
         THEN [code |-> 401, detail |-> "Invalid authentication token"]
    ELSE [code |-> 0, detail |-> ""]

\* Variant: TimeoutExpired is reported like a non-zero exit, as a 200
\* response with status "failed".
execute_task_timeout_as_failed(secret, x_nadg_auth, task_id, exec) ==
    LET auth == verify_auth_token(secret, x_nadg_auth) IN
    IF auth.code # 0
    THEN HttpReply(auth.code, [NoBody EXCEPT !.detail = auth.detail])
    ELSE CASE exec = "exit0" ->
                HttpReply(200, [NoBody EXCEPT !.task_id = task_id, !.status = "completed"])
           [] exec \in {"nonzero", "TimeoutExpired"} ->
                HttpReply(200, [NoBody EXCEPT !.task_id = task_id, !.status = "failed"])
           [] OTHER ->
                HttpReply(500, [NoBody EXCEPT !.detail = "Task execution failed"])

\* POST /execute: the dependency runs first, then the task body.
execute_task(secret, x_nadg_auth, task_id, exec) ==
    LET auth == verify_auth_token(secret, x_nadg_auth) IN
    IF auth.code # 0
    THEN HttpReply(auth.code, [NoBody EXCEPT !.detail = auth.detail])
    ELSE CASE exec = "exit0" ->
                HttpReply(200, [NoBody EXCEPT !.task_id = task_id, !.status = "completed"])
           [] exec = "nonzero" ->
                HttpReply(200, [NoBody EXCEPT !.task_id = task_id, !.status = "failed"])
           [] exec = "TimeoutExpired" ->
                HttpReply(408, [NoBody EXCEPT !.detail = "Task execution timed out"])
           [] OTHER ->
                HttpReply(500, [NoBody EXCEPT !.detail = "Task execution failed"])

\* No request handled yet.
NoRequest ==
    [path |-> "", x_nadg_auth |-> NoHeader, task_id |-> -1, exec |-> "none"]

\* A worker process just started with NADG_AUTH_TOKEN = secret.
IdleNode(secret) ==
    [secret |-> secret, request |-> NoRequest,
     response |-> [code |-> -1, json |-> FALSE, body |-> NoBody],
     executions |-> 0]

\* ------------------------------------------------------------ dispatcher
\* What session.post / response.json() can end in besides a reply of the
\* worker node: an exception (connection refused, DNS failure, the 30 s
\* client timeout, a body that is not JSON).  All of them take the same
\* except branch, so one value stands for them.
ClientError == [code |-> 0, json |-> FALSE, body |-> NoBody]
\* No reply received yet.
NoReply == [code |-> -1, json |-> FALSE, body |-> NoBody]

\* The header send_task_to_worker puts on the request.
AuthHeader(token) == IF token # "" THEN token ELSE NoHeader

\* Everything one POST /execute of subtask task_id can come back with.
Replies(token, task_id) ==
    { execute_task(secret, AuthHeader(token), task_id, exec) :
        secret \in Tokens, exec \in ExecOutcomes }
    \cup {ClientError}

NoResult == [worker_id |-> NoneId, status |-> "none", result |-> NoBody,
             error |-> "", task_index |-> -1]

\* Variant: a payload with status "failed" counts as a failed attempt.
send_task_to_worker_checks_payload(reply, worker_id) ==
    IF reply.code # 0 /\ reply.json /\ reply.body.status # "failed"
    THEN [NoResult EXCEPT !.worker_id = worker_id, !.status = "success",
                          !.result = reply.body]
    ELSE [NoResult EXCEPT !.worker_id = worker_id, !.status = "error",
                          !.error = "exception"]

\* send_task_to_worker: 'success' whenever the body parses as JSON (the
\* status code is never looked at), 'error' when the call raises.
send_task_to_worker(reply, worker_id) ==
    IF reply.code # 0 /\ reply.json
    THEN [NoResult EXCEPT !.worker_id = worker_id, !.status = "success",
                          !.result = reply.body]
    ELSE [NoResult EXCEPT !.worker_id = worker_id, !.status = "error",
                          !.error = "exception"]


\* ------------------------------------------------------ worker registry
Status == {"active", "busy", "offline"}

\* Every order in which the store can list the workers of set S.
Orders(S) ==
    { f \in [1..Cardinality(S) -> S] :
        \A a, b \in 1..Cardinality(S) : a # b => f[a] # f[b] }

\* get_active_workers: the workers whose status is active, in whatever
\* order the store lists them, or [] when the query raises.
Listings(reg) == Orders({w \in DOMAIN reg : reg[w] = "active"})

\* Variant: the query without its .eq('status', 'active') filter.
get_all_workers(reg) == Orders(DOMAIN reg) \cup {<<>>}

get_active_workers(reg) == Listings(reg) \cup {<<>>}

\* Variant: the update is never sent.
mark_worker_offline_skipped(reg, worker_id, persisted) ==
    [reg |-> reg, raised |-> FALSE]

\* Variant: no try/except around the update, its exception reaches the
\* retry loop.
mark_worker_offline_unguarded(reg, worker_id, persisted) ==
    [reg |-> IF persisted THEN [reg EXCEPT ![worker_id] = "offline"] ELSE reg,
     raised |-> ~persisted]

\* Variant: the update flips the status instead of setting it.
mark_worker_offline_toggles(reg, worker_id, persisted) ==
    [reg |-> IF ~persisted THEN reg
             ELSE IF reg[worker_id] = "offline"
                  THEN [reg EXCEPT ![worker_id] = "active"]
                  ELSE [reg EXCEPT ![worker_id] = "offline"],
     raised |-> FALSE]

\* mark_worker_offline: the update sets status to offline; when the call
\* raises, the exception is logged and the record is left as it was.
\* reg is the registry afterwards, raised tells whether an exception
\* leaves the function (it never does: the except clause swallows it).
mark_worker_offline(reg, worker_id, persisted) ==
    [reg |-> IF persisted THEN [reg EXCEPT ![worker_id] = "offline"] ELSE reg,
     raised |-> FALSE]

\* total_tasks and last_ping of a record nobody has updated yet
\* ("old" stands for any timestamp before the run, "now" for one in it).
NewStats == [total_tasks |-> 0, last_ping |-> "old"]

\* ---------------------------------------------------------------- state
VARIABLES
    NADG_AUTH_TOKEN,  \* the orchestrator's shared secret ("" = not configured)
    tasks,            \* N, the number of subtasks handed to distribute_tasks
    workers,          \* the snapshot handed to distribute_tasks (worker ids)
    status,           \* the registry: worker id -> status (the snapshot's
                      \* workers and one record that was not active)
    run,              \* "ready", "gathering", "done" or "raised"
    coro,             \* subtask index -> locals of its send_task_with_retry
    results,          \* what distribute_tasks returns
    sent,             \* history: subtask index -> worker ids it sent /execute to
    queries,          \* history: number of get_active_workers calls of the run
    failed,           \* history: worker ids that failed an attempt
    last_reply,       \* history: subtask index -> the last reply it received
    registry_raised,  \* history: has a registry call of the run raised?
    stats,            \* the registry: worker id -> total_tasks and last_ping
    node              \* a worker node: its secret, the last request it
                      \* handled, its response, the task bodies it has run

vars == <<NADG_AUTH_TOKEN, tasks, workers, status, run, coro, results,
          sent, queries, failed, last_reply, registry_raised, stats, node>>

Indexes == 0..(tasks - 1)

\* --------------------------------------------------- send_task_with_retry
\* Variant: the early return carries the message of the return after the
\* loop.
NoWorkersRemaining_as_exhausted(task_index) ==
    [NoResult EXCEPT !.status = "error",
                     !.error = "Task failed after 3 retries",
                     !.task_index = task_index]

NoWorkersRemaining(task_index) ==
    [NoResult EXCEPT !.status = "error",
                     !.error = "No available workers remaining",
                     !.task_index = task_index]

RetriesExhausted(task_index) ==
    [NoResult EXCEPT !.status = "error",
                     !.error = "Task failed after 3 retries",
                     !.task_index = task_index]

\* The locals of the coroutine before its first iteration.
Locals(initial_worker) ==
    [pc |-> "awaiting", attempt |-> 0, attempted_workers |-> {},
     current_worker |-> initial_worker, ret |-> NoResult]

\* Is get_active_workers called at the top of this iteration?
Refetches(c) == c.current_worker \in c.attempted_workers

\* Variant: the fetched list is used without the attempted-set filter.
available_workers_unfiltered(c, active_workers) == active_workers

\* The workers of the fetched list this subtask has not attempted yet.
available_workers(c, active_workers) ==
    SelectSeq(active_workers, LAMBDA w : w \notin c.attempted_workers)

\* One iteration of the for loop, from its top to the await of
\* send_task_to_worker (pc "awaiting") or to a return (pc "returned").
Iteration(c, task_index, active_workers) ==
    LET available == available_workers(c, active_workers)
        target == IF Refetches(c) THEN available[1] ELSE c.current_worker
    IN IF Refetches(c) /\ available = <<>>
       THEN [c EXCEPT !.pc = "returned", !.ret = NoWorkersRemaining(task_index)]
       ELSE [c EXCEPT !.pc = "awaiting",
                      !.current_worker = target,
                      !.attempted_workers = @ \cup {target}]

\* Variant: the loop runs one iteration too many (range(max_retries + 1)).
Continues_one_more(c) == c.attempt + 1 < max_retries + 1

\* Variant: a while True loop, no bound on the attempts.
Continues_unbounded(c) == TRUE

\* Has range(max_retries) another iteration after the one of c.attempt?
Continues(c) == c.attempt + 1 < max_retries

\* The rest of an iteration after send_task_to_worker returned an error
\* and the worker was marked offline: the next iteration, or the return
\* after the loop.
NextIteration(c, task_index, active_workers) ==
    LET c2 == [c EXCEPT !.attempt = @ + 1] IN
    IF ~Continues(c)
    THEN [c2 EXCEPT !.pc = "returned", !.ret = RetriesExhausted(task_index)]
    ELSE Iteration(c2, task_index, active_workers)

\* ------------------------------------------------------- distribute_tasks
\* Variant: the index is shifted by one.
InitialWorker_shifted(i, ws) == ws[((i + 1) % Len(ws)) + 1]

\* workers[i % len(workers)] (Python sequences are 0-based).
InitialWorker(i, ws) == ws[(i % Len(ws)) + 1]

\* Variant: the results in reverse order.
Gather_reversed(c, n) == [k \in 1..n |-> c[n - k].ret]

\* asyncio.gather: the coroutines' return values in the order given.
Gather(c, n) == [k \in 1..n |-> c[k - 1].ret]

Init ==
    /\ NADG_AUTH_TOKEN \in {"", "s1"}
    /\ tasks \in 0..MaxTasks
    /\ \E m \in 0..MaxWorkers :
         /\ m + tasks <= MaxLoad
         /\ workers = [k \in 1..m |-> k]
         /\ status \in [1..(m + 1) -> Status]
         /\ \A w \in 1..(m + 1) : (status[w] = "active") <=> (w <= m)
    /\ run = "ready"
    /\ coro = <<>>
    /\ results = <<>>
    /\ sent = <<>>
    /\ queries = 0
    /\ failed = {}
    /\ last_reply = <<>>
    /\ registry_raised = FALSE
    /\ stats = [w \in DOMAIN status |-> NewStats]
    /\ node = IdleNode("")

\* distribute_tasks up to the await of gather: with an empty snapshot the
\* first i % len(workers) raises ZeroDivisionError; otherwise every
\* coroutine runs its first iteration up to its HTTP call.
distribute_tasks ==
    /\ run = "ready"
    /\ IF tasks >= 1 /\ Len(workers) = 0
       THEN /\ run' = "raised"
            /\ UNCHANGED <<coro, sent, last_reply>>
       ELSE /\ run' = "gathering"
            /\ coro' = [i \in Indexes |->
                          Iteration(Locals(InitialWorker(i, workers)), i, <<>>)]
            /\ sent' = [i \in Indexes |-> <<InitialWorker(i, workers)>>]
            /\ last_reply' = [i \in Indexes |-> NoReply]
    /\ UNCHANGED <<NADG_AUTH_TOKEN, tasks, workers, status, results, queries,
                   failed, registry_raised, stats, node>>

\* A reply to the pending /execute of subtask i arrives and the call
\* returns success: the coroutine returns the result.
ReplySuccess(i) ==
    /\ run = "gathering"
    /\ i \in Indexes
    /\ coro[i].pc = "awaiting"
    /\ \E reply \in Replies(NADG_AUTH_TOKEN, i) :
         LET result == send_task_to_worker(reply, coro[i].current_worker) IN
         /\ result.status = "success"
         /\ coro' = [coro EXCEPT ![i].pc = "returned", ![i].ret = result]
         /\ last_reply' = [last_reply EXCEPT ![i] = reply]
    /\ UNCHANGED <<NADG_AUTH_TOKEN, tasks, workers, status, run, results,
                   sent, queries, failed, registry_raised, stats, node>>

\* The pending /execute of subtask i ends in an error: the worker is
\* marked offline and the loop goes on to its next iteration.
ReplyError(i) ==
    /\ run = "gathering"
    /\ i \in Indexes
    /\ coro[i].pc = "awaiting"
    /\ \E reply \in Replies(NADG_AUTH_TOKEN, i), persisted \in BOOLEAN :
         LET c == coro[i]
             result == send_task_to_worker(reply, c.current_worker)
             marked == mark_worker_offline(status, c.current_worker, persisted)
             reg == marked.reg
             refetch == Continues(c) /\ ~marked.raised
         IN
         /\ result.status # "success"
         /\ last_reply' = [last_reply EXCEPT ![i] = reply]
         /\ status' = reg
         /\ failed' = failed \cup {c.current_worker}
         /\ queries' = IF refetch THEN queries + 1 ELSE queries
         /\ IF marked.raised
            THEN \* an exception leaving the coroutine leaves gather and
                 \* distribute_tasks too
                 /\ coro' = [coro EXCEPT ![i].pc = "raised"]
                 /\ run' = "raised"
                 /\ registry_raised' = TRUE
                 /\ sent' = sent
            ELSE /\ run' = run
                 /\ \E active_workers \in
                      (IF refetch THEN get_active_workers(reg) ELSE {<<>>}) :
                      LET c2 == NextIteration(c, i, active_workers) IN
                      /\ coro' = [coro EXCEPT ![i] = c2]
                      /\ registry_raised' =
                            (registry_raised \/ ~persisted
                               \/ (refetch /\ active_workers \notin Listings(reg)))
                      /\ sent' = IF c2.pc = "awaiting"
                                 THEN [sent EXCEPT ![i] = Append(@, c2.current_worker)]
                                 ELSE sent
    /\ UNCHANGED <<NADG_AUTH_TOKEN, tasks, workers, results, stats, node>>

\* Variant: the results are handed back as soon as one coroutine has
\* returned (asyncio.wait with FIRST_COMPLETED instead of gather).
GatherReturns_first_completed ==
    /\ run = "gathering"
    /\ \E i \in Indexes : coro[i].pc = "returned"
    /\ results' = Gather(coro, tasks)
    /\ run' = "done"
    /\ UNCHANGED <<NADG_AUTH_TOKEN, tasks, workers, status, coro, sent,
                   queries, failed, last_reply, registry_raised, stats, node>>

\* Every coroutine has returned: gather hands back the list of results.
GatherReturns ==
    /\ run = "gathering"
    /\ \A i \in Indexes : coro[i].pc = "returned"
    /\ results' = Gather(coro, tasks)
    /\ run' = "done"
    /\ UNCHANGED <<NADG_AUTH_TOKEN, tasks, workers, status, coro, sent,
                   queries, failed, last_reply, registry_raised, stats, node>>

Next ==
    \/ distribute_tasks
    \/ \E i \in 0..(MaxTasks - 1) : ReplySuccess(i)
    \/ \E i \in 0..(MaxTasks - 1) : ReplyError(i)
    \/ GatherReturns

Spec == Init /\ [][Next]_vars

\* A run in which every pending /execute call eventually returns or times
\* out (aiohttp's timeout=30 ends a call that gets no answer) and the event
\* loop eventually resumes what can run.
MaxLiveLoad == 4

InitLive == Init /\ Len(workers) + tasks <= MaxLiveLoad

Fairness ==
    /\ WF_vars(distribute_tasks)
    /\ WF_vars(GatherReturns)
    /\ \A i \in 0..(MaxTasks - 1) : WF_vars(ReplySuccess(i) \/ ReplyError(i))

LiveSpec == InitLive /\ [][Next]_vars /\ Fairness

\* ------------------------------------------------------------------ main
\* Bound on len(workers) + len(subtasks) of the clicks explored.
MaxMainLoad == 4

Min(a, b) == IF a <= b THEN a ELSE b

\* Variant: the parsed list is returned whole (return tasks).
split_task_with_gemini_untruncated(lines, num_workers, api_raised) ==
    IF api_raised THEN 0 ELSE lines

\* split_task_with_gemini: the number of subtasks it returns, lines being
\* the number of task lines parsed from the model's answer; tasks[:num_workers]
\* keeps at most num_workers of them, an exception of the API gives [].
split_task_with_gemini(lines, num_workers, api_raised) ==
    IF api_raised THEN 0 ELSE Min(lines, num_workers)

\* The row of worker w in worker_nodes.
Row(w) ==
    [status |-> status[w], total_tasks |-> stats[w].total_tasks,
     last_ping |-> stats[w].last_ping]

\* worker['total_tasks'] of the snapshot taken when the page was rendered;
\* nothing writes total_tasks between the snapshot and the update loop.
SnapshotTotal(w) == stats[w].total_tasks

\* Variant: the update also writes the status of the snapshot.
update_worker_task_count_reactivates(row, total_tasks, persisted) ==
    IF persisted
    THEN [row EXCEPT !.total_tasks = total_tasks + 1, !.last_ping = "now",
                     !.status = "active"]
    ELSE row

\* update_worker_task_count: the update sets total_tasks to the snapshot's
\* value plus one and last_ping to the current time; when the call raises
\* the error is shown and the row is left as it was.
update_worker_task_count(row, total_tasks, persisted) ==
    IF persisted
    THEN [row EXCEPT !.total_tasks = total_tasks + 1, !.last_ping = "now"]
    ELSE row

\* The page has been rendered: workers is the snapshot get_active_workers
\* returned, and the Execute button is enabled only for a non-empty snapshot
\* and a non-empty command.
InitMain ==
    /\ NADG_AUTH_TOKEN \in {"", "s1"}
    /\ tasks = 0
    /\ \E m \in 1..MaxWorkers :
         /\ workers = [k \in 1..m |-> k]
         /\ status \in [1..(m + 1) -> Status]
         /\ \A w \in 1..(m + 1) : (status[w] = "active") <=> (w <= m)
    /\ run = "rendered"
    /\ coro = <<>>
    /\ results = <<>>
    /\ sent = <<>>
    /\ queries = 0
    /\ failed = {}
    /\ last_reply = <<>>
    /\ registry_raised = FALSE
    /\ stats = [w \in DOMAIN status |-> NewStats]
    /\ node = IdleNode("")

\* The Execute button is clicked: the command is split into at most
\* len(workers) subtasks; an empty list ends the click with an error message.
ExecuteTask ==
    /\ run = "rendered"
    /\ \E lines \in 0..(MaxTasks + 1), api_raised \in BOOLEAN :
         LET subtasks == split_task_with_gemini(lines, Len(workers), api_raised) IN
         /\ subtasks <= MaxTasks
         /\ Len(workers) + subtasks <= MaxMainLoad
         /\ tasks' = subtasks
         /\ run' = IF subtasks > 0 THEN "ready" ELSE "no_subtasks"
    /\ UNCHANGED <<NADG_AUTH_TOKEN, workers, status, coro, results, sent,
                   queries, failed, last_reply, registry_raised, stats, node>>

\* After the results are displayed: update_worker_task_count is called for
\* every worker of the snapshot, each write persisted or lost on its own.
UpdateWorkerStats ==
    /\ run = "done"
    /\ \E persisted \in [1..Len(workers) -> BOOLEAN] :
         LET rows == [w \in DOMAIN status |->
                        IF w \in Range(workers)
                        THEN update_worker_task_count(
                                 Row(w), SnapshotTotal(w), persisted[w])
                        ELSE Row(w)]
         IN
         /\ status' = [w \in DOMAIN status |-> rows[w].status]
         /\ stats' = [w \in DOMAIN status |->
                        [total_tasks |-> rows[w].total_tasks,
                         last_ping |-> rows[w].last_ping]]
         /\ registry_raised' =
              (registry_raised \/ \E w \in 1..Len(workers) : ~persisted[w])
    /\ run' = "updated"
    /\ UNCHANGED <<NADG_AUTH_TOKEN, tasks, workers, coro, results, sent,
                   queries, failed, last_reply, node>>

NextMain ==
    \/ ExecuteTask
    \/ Next
    \/ UpdateWorkerStats

SpecMain == InitMain /\ [][NextMain]_vars

\* ----------------------------------------------------- worker node: app
MaxExecutions == 2

TaskIds == 0..(MaxTasks - 1)
Headers == Tokens \cup {NoHeader}

\* The body of a GET reply: its "status" field, nothing of a TaskResponse.
GetBody(st) == [NoBody EXCEPT !.status = st]

\* Variant: GET /health declares the verify_auth_token dependency.
health_check_authenticated(secret, x_nadg_auth) ==
    LET auth == verify_auth_token(secret, x_nadg_auth) IN
    IF auth.code # 0
    THEN HttpReply(auth.code, [NoBody EXCEPT !.detail = auth.detail])
    ELSE HttpReply(200, GetBody("healthy"))

\* GET /, GET /health, GET /status: no dependency is declared, neither the
\* secret nor the header is looked at, nothing is run.
root(secret, x_nadg_auth) == HttpReply(200, GetBody("active"))
health_check(secret, x_nadg_auth) == HttpReply(200, GetBody("healthy"))
get_status(secret, x_nadg_auth) == HttpReply(200, GetBody("active"))

\* The variables of the dispatcher, unused by a worker process.
NoDispatcher ==
    /\ NADG_AUTH_TOKEN = ""
    /\ tasks = 0
    /\ workers = <<>>
    /\ status = <<>>
    /\ run = "none"
    /\ coro = <<>>
    /\ results = <<>>
    /\ sent = <<>>
    /\ queries = 0
    /\ failed = {}
    /\ last_reply = <<>>
    /\ registry_raised = FALSE
    /\ stats = <<>>

dispatcher_vars ==
    <<NADG_AUTH_TOKEN, tasks, workers, status, run, coro, results, sent,
      queries, failed, last_reply, registry_raised, stats>>

\* A worker process started with any value of NADG_AUTH_TOKEN.
InitWorker ==
    /\ NoDispatcher
    /\ \E secret \in Tokens : node = IdleNode(secret)

\* The request record of a call.
Request(path, x_nadg_auth, task_id, exec) ==
    [path |-> path, x_nadg_auth |-> x_nadg_auth, task_id |-> task_id,
     exec |-> exec]

\* POST /execute with any header, task_id and outcome of subprocess.run;
\* the task body is run when the dependency lets the request through.
Execute ==
    /\ \E x_nadg_auth \in Headers, task_id \in TaskIds, exec \in ExecOutcomes :
         LET auth == verify_auth_token(node.secret, x_nadg_auth)
             ran == auth.code = 0
         IN
         /\ ran => node.executions < MaxExecutions
         /\ node' = [node EXCEPT
                       !.request = Request("/execute", x_nadg_auth, task_id,
                                           IF ran THEN exec ELSE "none"),
                       !.response = execute_task(node.secret, x_nadg_auth,
                                                 task_id, exec),
                       !.executions = IF ran THEN @ + 1 ELSE @]
    /\ UNCHANGED dispatcher_vars

Root ==
    /\ \E x_nadg_auth \in Headers :
         node' = [node EXCEPT
                    !.request = Request("/", x_nadg_auth, -1, "none"),
                    !.response = root(node.secret, x_nadg_auth)]
    /\ UNCHANGED dispatcher_vars

HealthCheck ==
    /\ \E x_nadg_auth \in Headers :
         node' = [node EXCEPT
                    !.request = Request("/health", x_nadg_auth, -1, "none"),
                    !.response = health_check(node.secret, x_nadg_auth)]
    /\ UNCHANGED dispatcher_vars

GetStatus ==
    /\ \E x_nadg_auth \in Headers :
         node' = [node EXCEPT
                    !.request = Request("/status", x_nadg_auth, -1, "none"),
                    !.response = get_status(node.secret, x_nadg_auth)]
    /\ UNCHANGED dispatcher_vars

NextWorker ==
    \/ Execute
    \/ Root
    \/ HealthCheck
    \/ GetStatus

SpecWorker == InitWorker /\ [][NextWorker]_vars

\* ================================================================ claims

\* r is a terminal result of subtask i: the success returned for the reply
\* of the worker it attempted last, or one of the two error returns.
TerminalResultOf(r, i) ==
    \/ /\ r.status = "success"
       /\ r.worker_id = Last(sent[i])
       /\ r.result = last_reply[i].body
    \/ /\ r.status = "error"
       /\ r.worker_id = NoneId
       /\ r.task_index = i

\* C1: with a non-empty snapshot the run never raises, and when it is done
\* it has exactly N results, the result at position i being the terminal
\* result (success or error) of subtask i.
C1_ResultsTotalAndOrdered ==
    Len(workers) >= 1 =>
        /\ run # "raised"
        /\ run = "done" =>
             /\ Len(results) = tasks
             /\ \A i \in Indexes :
                  /\ results[i + 1] = coro[i].ret
                  /\ TerminalResultOf(results[i + 1], i)

\* C1 witness: a finished run of three subtasks, one failed and one
\* succeeded after a failover.
C1_Witness ==
    /\ run = "done"
    /\ tasks = 3
    /\ results[1].status = "error"
    /\ results[2].status = "success"
    /\ Len(sent[1]) >= 2

\* C2: the worker ids one subtask sent attempts to are pairwise distinct.
C2_NoWorkerAttemptedTwice ==
    \A i \in DOMAIN sent :
        \A a, b \in 1..Len(sent[i]) : a # b => sent[i][a] # sent[i][b]

\* C2 witness: a subtask that attempted three workers while a mark_offline
\* write was lost, so that a worker it had tried was still listed active.
C2_Witness ==
    \E i \in DOMAIN sent :
        /\ Len(sent[i]) = 3
        /\ \E w \in coro[i].attempted_workers : status[w] = "active"

\* C3: no subtask sends more than max_retries (3) execute requests.
C3_AttemptsBounded ==
    \A i \in DOMAIN sent :
        /\ Len(sent[i]) <= 3
        /\ Cardinality(coro[i].attempted_workers) <= 3

\* C3 witness: a subtask gave up after three attempts while an active
\* worker it had not tried was left in the registry.
C3_Witness ==
    \E i \in DOMAIN coro :
        /\ coro[i].pc = "returned"
        /\ coro[i].ret.error = "Task failed after 3 retries"
        /\ \E w \in DOMAIN status :
             status[w] = "active" /\ w \notin coro[i].attempted_workers

\* C4 (as claimed): a 408 or 500 reply of /execute is an attempt failure:
\* the subtask does not return success on it, the attempt is counted as
\* failed and a worker the subtask attempted is recorded as failed.
C4_NonOkReplyIsAttemptFailure ==
    \A i \in DOMAIN last_reply :
        last_reply[i].code \in {408, 500} =>
            /\ coro[i].ret.status # "success"
            /\ coro[i].attempt >= 1
            /\ Range(sent[i]) \cap failed # {}

\* C5 (as claimed): an empty snapshot with at least one subtask ends in one
\* error result per subtask, without a registry query.
C5_EmptySnapshotAllErrors ==
    (Len(workers) = 0 /\ tasks >= 1 /\ run \in {"done", "raised"}) =>
        /\ run = "done"
        /\ Len(results) = tasks
        /\ \A k \in 1..Len(results) : results[k].status = "error"
        /\ queries = 0

\* No reply so far was a dispatch-level success: every attempt answered
\* up to now has failed.
AllAttemptsFailed == \A j \in DOMAIN coro : coro[j].ret.status # "success"

\* C6 (as claimed): when every attempt fails, a subtask whose attempted set
\* covers the whole snapshot ends with "No available workers remaining".
C6_AllFailNoWorkersRemaining ==
    \A i \in DOMAIN coro :
        (/\ Len(workers) >= 1
         /\ AllAttemptsFailed
         /\ coro[i].pc = "returned"
         /\ Range(workers) \subseteq coro[i].attempted_workers) =>
            coro[i].ret.error = "No available workers remaining"

\* C6 (amended): when every attempt fails, a subtask ends in an error; the
\* message is "No available workers remaining" when it sent fewer than
\* max_retries attempts, which is always so for M < max_retries, and
\* "Task failed after 3 retries" when it sent max_retries attempts, also
\* when these cover the whole snapshot (M = 3).
C6_ExhaustedMessage ==
    \A i \in DOMAIN coro :
        (AllAttemptsFailed /\ coro[i].pc = "returned") =>
            /\ coro[i].ret.status = "error"
            /\ Len(workers) < 3 => Len(sent[i]) < 3
            /\ Len(sent[i]) < 3 =>
                 coro[i].ret.error = "No available workers remaining"
            /\ Len(sent[i]) >= 3 =>
                 coro[i].ret.error = "Task failed after 3 retries"

\* C6 witness: three workers, all attempts failed, and a subtask whose
\* attempted set covers the snapshot has returned.
C6_Witness ==
    \E i \in DOMAIN coro :
        /\ Len(workers) = 3
        /\ AllAttemptsFailed
        /\ coro[i].pc = "returned"
        /\ coro[i].attempted_workers = Range(workers)

\* The step in which subtask i receives a 2xx reply with status "failed".
ExecutionFailureArrives(i) ==
    /\ coro[i].pc = "awaiting"
    /\ last_reply'[i] # last_reply[i]
    /\ last_reply'[i].code \in 200..299
    /\ last_reply'[i].body.status = "failed"

\* C7: on a 2xx reply with status "failed" the dispatcher marks no worker
\* offline, sends no further attempt, and returns a success result that
\* carries the worker's payload.
C7_ExecutionFailureIsSuccess ==
    [][\A i \in DOMAIN coro :
         ExecutionFailureArrives(i) =>
            /\ status' = status
            /\ failed' = failed
            /\ sent' = sent
            /\ queries' = queries
            /\ coro'[i].pc = "returned"
            /\ coro'[i].ret.status = "success"
            /\ coro'[i].ret.worker_id = coro[i].current_worker
            /\ coro'[i].ret.result = last_reply'[i].body
            /\ coro'[i].ret.result.status = "failed"]_vars

\* C7 witness: a subtask returned on a 2xx "failed" reply of a worker that
\* is still active.
C7_Witness ==
    \E i \in DOMAIN coro :
        /\ last_reply[i].code = 200
        /\ last_reply[i].body.status = "failed"
        /\ coro[i].pc = "returned"
        /\ status[coro[i].current_worker] = "active"

\* C8: the first attempt of subtask i goes to W[i mod M], M being the
\* length of the snapshot, whatever has gone offline since.
C8_FirstAttemptRoundRobin ==
    \A i \in DOMAIN sent :
        \E q \in 0..i, r \in 0..(Len(workers) - 1) :
            /\ i = q * Len(workers) + r
            /\ sent[i][1] = workers[r + 1]

\* C8 witness: two workers, three subtasks, the first worker already
\* offline, and subtask 2 has wrapped around to it.
C8_Witness ==
    /\ Len(workers) = 2
    /\ tasks = 3
    /\ run = "gathering"
    /\ status[workers[1]] = "offline"
    /\ sent[2][1] = workers[1]

\* The run of the scenario is over: two workers, three subtasks, and the
\* first attempt of subtask 0 (on w1) failed.
ScenarioRun ==
    /\ run = "done"
    /\ Len(workers) = 2
    /\ tasks = 3
    /\ (Len(sent[0]) >= 2 \/ coro[0].ret.status = "error")

ScenarioOutcome ==
    /\ status[workers[1]] = "offline"
    /\ sent[0] = <<workers[1], workers[2]>>
    /\ results[1].status = "success"
    /\ results[1].worker_id = workers[2]
    /\ sent[2] = <<workers[1], workers[2]>>

\* The scenario's w2 and registry are healthy: w2 failed no attempt and no
\* registry call raised.
ScenarioHealthy == workers[2] \notin failed /\ ~registry_raised

\* C9 (as claimed, w2 and the registry being healthy): if w1 fails the
\* first attempt of subtask 0, then w1 is offline, subtask 0 retried on w2
\* and succeeded, and subtask 2 went from w1 to w2.
C9_ScenarioAsClaimed == (ScenarioRun /\ ScenarioHealthy) => ScenarioOutcome

\* Moreover w1 failed every attempt sent to it.
ScenarioEnvironment ==
    /\ ScenarioHealthy
    /\ \A i \in DOMAIN coro :
         ~(coro[i].ret.status = "success" /\ coro[i].ret.worker_id = workers[1])

\* C9 (amended): if w1 fails every attempt sent to it (not only the first
\* one of subtask 0), w2 fails none and no registry call raises, then w1 is offline, subtask 0 retried
\* on w2 and succeeded, and subtask 2 sent its first attempt to w1, failed,
\* and succeeded on w2.
C9_ScenarioW1Down ==
    (ScenarioRun /\ ScenarioEnvironment) =>
        /\ ScenarioOutcome
        /\ results[3].status = "success"
        /\ results[3].worker_id = workers[2]

\* C9 witness: such a run, finished.
C9_Witness == ScenarioRun /\ ScenarioEnvironment

\* Subtask i starts a reassigned attempt in this step.
Reassigned(i) == i \in DOMAIN sent' /\ sent'[i] # sent[i]

\* C10 (as claimed): a reassignment step never selects a worker that has
\* failed an attempt of some subtask.
C10_FailedWorkerNeverSelected ==
    [][\A i \in DOMAIN sent :
         Reassigned(i) => Last(sent'[i]) \notin failed']_vars

\* C10 (amended): a reassignment step never selects a worker that has
\* failed an attempt and whose offline mark is in the registry; a failed
\* worker whose mark_offline write raised is still listed active and can be
\* selected by another subtask.
C10_MarkedWorkerNeverSelected ==
    [][\A i \in DOMAIN sent :
         Reassigned(i) =>
            \A w \in failed' : status'[w] = "offline" => Last(sent'[i]) # w]_vars

\* C10 witness: three workers; subtask 1 failed on w2 and moved to w1 while
\* w1 was still listed, then subtask 0 failed on w1 and, w2 being marked
\* offline, moved to w3.
C10_Witness ==
    /\ Len(workers) = 3
    /\ tasks = 2
    /\ run = "gathering"
    /\ ~registry_raised
    /\ sent[1] = <<2, 1>>
    /\ sent[0] = <<1, 3>>

\* C11 (as claimed): a 401 reply of /execute is handled like a transport
\* failure: the subtask does not return success on it, the worker that
\* answered is recorded as failed and is marked offline unless the registry
\* write raised.
C11_AuthRejectionFailsOver ==
    \A i \in DOMAIN last_reply :
        last_reply[i].code = 401 =>
            /\ coro[i].ret.status # "success"
            /\ Range(sent[i]) \cap failed # {}
            /\ (~registry_raised =>
                  \E w \in Range(sent[i]) : status[w] = "offline")

\* The workers that received at least one attempt of the run.
Attempted == UNION {Range(sent[i]) : i \in DOMAIN sent}

\* C12 (as claimed): after a run whose registry calls all went through, the
\* task counter has been incremented exactly once for each worker that
\* received at least one attempt, and not at all for the others.
C12_CounterFollowsAttempts ==
    (run = "updated" /\ ~registry_raised) =>
        \A w \in DOMAIN stats :
            stats[w].total_tasks = (IF w \in Attempted THEN 1 ELSE 0)

\* The position of subtask i's coroutine ("none" before the run starts).
PcOf(i) == IF i \in DOMAIN coro THEN coro[i].pc ELSE "none"

\* Subtask i has returned an error result.
Exhausted(i) ==
    IF i \in DOMAIN coro
    THEN coro[i].pc = "returned" /\ coro[i].ret.status = "error"
    ELSE FALSE

\* C13: when every pending call eventually returns or times out, every
\* subtask of a started run eventually returns a terminal result, whatever
\* its siblings have done (in particular when one of them has already
\* returned an error); the run then hands back its results, and it has
\* results only when every subtask has returned, each result being the one
\* its subtask returned.
C13_EverySubtaskTerminates ==
    /\ [](run = "done" =>
            \A i \in Indexes :
                /\ coro[i].pc = "returned"
                /\ TerminalResultOf(coro[i].ret, i)
                /\ results[i + 1] = coro[i].ret)
    /\ \A i \in 0..(MaxTasks - 1) :
         (PcOf(i) = "awaiting") ~> (PcOf(i) = "returned")
    /\ (run = "gathering") ~> (run = "done")

\* C13 witness: a finished run of two subtasks in which subtask 0 ran out
\* of workers and subtask 1, answered later, succeeded.
C13_Witness ==
    /\ run = "done"
    /\ tasks = 2
    /\ Exhausted(0)
    /\ coro[1].ret.status = "success"
    /\ Len(sent[1]) >= 2

\* The step handles a POST /execute.
ExecuteHandled == node'.request.path = "/execute"

\* C14: on a node with a secret, a POST /execute whose X-NADG-AUTH header
\* is missing or differs from the secret is answered 401 and no task body
\* is run for it; on a node without a secret every POST /execute passes the
\* check, whatever its header, and its task body is run.
C14_SecretGuardsExecute ==
    [][ExecuteHandled =>
         LET x_nadg_auth == node'.request.x_nadg_auth IN
         /\ (node.secret # ""
               /\ (x_nadg_auth = NoHeader \/ x_nadg_auth # node.secret)) =>
                /\ node'.response.code = 401
                /\ node'.executions = node.executions
                /\ node'.request.exec = "none"
         /\ node.secret = "" =>
                /\ node'.response.code # 401
                /\ node'.executions = node.executions + 1
                /\ node'.request.exec \in ExecOutcomes]_vars

\* C14 witness: a node with secret "s1" that has run one task body and has
\* then rejected a POST /execute carrying the token "s2".
C14_Witness ==
    /\ node.secret = "s1"
    /\ node.executions = 1
    /\ node.request.path = "/execute"
    /\ node.request.x_nadg_auth = "s2"
    /\ node.response.code = 401

\* The last request handled was a POST /execute that carried the secret, or
\* reached a node without a secret.
AuthenticatedExecute ==
    /\ node.request.path = "/execute"
    /\ (node.secret = "" \/ node.request.x_nadg_auth = node.secret)

\* C15: the response to an authenticated POST /execute is 200 "completed"
\* exactly when the task exited zero, 200 "failed" exactly when it exited
\* non-zero, 408 exactly when it exceeded the timeout and 500 exactly when
\* another exception was raised; a 200 response echoes the request's task_id.
C15_ExecuteOutcomes ==
    AuthenticatedExecute =>
        LET r == node.response
            exec == node.request.exec
        IN
        /\ exec \in ExecOutcomes
        /\ r.code \in {200, 408, 500}
        /\ (exec = "exit0") <=> (r.code = 200 /\ r.body.status = "completed")
        /\ (exec = "nonzero") <=> (r.code = 200 /\ r.body.status = "failed")
        /\ (exec = "TimeoutExpired") <=> (r.code = 408)
        /\ (exec = "Exception") <=> (r.code = 500)
        /\ r.code = 200 => r.body.task_id = node.request.task_id

\* C15 witness: a node with a secret answered 408 to an authenticated
\* request for task 1 whose execution timed out.
C15_Witness ==
    /\ AuthenticatedExecute
    /\ node.secret = "s1"
    /\ node.request.task_id = 1
    /\ node.request.exec = "TimeoutExpired"
    /\ node.response.code = 408

\* The step handles a GET of one of the three read-only routes.
GetHandled == node'.request.path \in {"/", "/health", "/status"}

\* C16: GET /, GET /health and GET /status are answered 200 whatever the
\* header and whether or not a secret is configured, and leave the secret
\* and the count of task bodies run as they were.
C16_GetsSucceedWithoutEffect ==
    [][GetHandled =>
         /\ node'.response.code = 200
         /\ node'.secret = node.secret
         /\ node'.executions = node.executions
         /\ node'.request.exec = "none"]_vars

\* C16 witness: a node with a secret that has run one task body answered
\* 200 to a GET /health without header.
C16_Witness ==
    /\ node.secret = "s2"
    /\ node.executions = 1
    /\ node.request.path = "/health"
    /\ node.request.x_nadg_auth = NoHeader
    /\ node.response.code = 200

\* C17: a subtask that returned an error sent only attempts that failed;
\* its error is "No available workers remaining" exactly when it returned
\* with fewer than max_retries attempts sent, from a reassignment step whose
\* fetch listed no worker outside its attempted set (while every registry
\* call went through, no such worker is active), and is "Task failed after
\* 3 retries" exactly when it sent max_retries attempts, whether or not an
\* active worker it has not attempted remains.
C17_TerminalErrorTellsCause ==
    \A i \in DOMAIN coro :
        Exhausted(i) =>
            LET error == coro[i].ret.error
                attempts == Len(sent[i])
            IN
            /\ Range(sent[i]) \subseteq failed
            /\ coro[i].attempted_workers = Range(sent[i])
            /\ attempts \in 1..max_retries
            /\ (error = "No available workers remaining")
                   <=> (attempts < max_retries)
            /\ (error = "Task failed after 3 retries")
                   <=> (attempts = max_retries)
            /\ (error = "No available workers remaining" /\ ~registry_raised) =>
                   \A w \in DOMAIN status :
                       status[w] = "active" => w \in coro[i].attempted_workers

\* C17 witness: with four workers and no registry fault, the subtask failed
\* on w1, w2 and w3 and returned "Task failed after 3 retries" while w4 is
\* still active.
C17_Witness ==
    /\ Len(workers) = 4
    /\ ~registry_raised
    /\ Exhausted(0)
    /\ sent[0] = <<1, 2, 3>>
    /\ coro[0].ret.error = "Task failed after 3 retries"
    /\ status[4] = "active"

\* C18: in every step of the dispatcher, from the click to the update of
\* the task counters, each worker's status stays what it was or becomes
\* offline; in particular an offline worker stays offline.
C18_StatusOnlyTurnsOffline ==
    [][/\ DOMAIN status' = DOMAIN status
       /\ \A w \in DOMAIN status :
            status'[w] = status[w] \/ status'[w] = "offline"]_vars

\* C18 witness: a run has marked a failed worker of the snapshot offline
\* and has then updated that worker's task counter.
C18_Witness ==
    /\ run = "updated"
    /\ \E w \in failed :
         /\ status[w] = "offline"
         /\ stats[w].total_tasks = 1
         /\ stats[w].last_ping = "now"

\* The step in which subtask i's attempt on worker w fails and the offline
\* mark of w is lost: w is still not offline afterwards.
LostMarkStep(i, w) ==
    /\ PcOf(i) = "awaiting"
    /\ coro[i].current_worker = w
    /\ coro'[i] # coro[i]
    /\ send_task_to_worker(last_reply'[i], w).status = "error"
    /\ status'[w] # "offline"

\* Subtask i is between attempts after a lost mark: a worker it failed on is
\* still listed active.
AfterLostMark(i) ==
    IF PcOf(i) = "awaiting"
    THEN \E w \in coro[i].attempted_workers \ {coro[i].current_worker} :
            w \in failed /\ status[w] = "active"
    ELSE FALSE

\* C19: a failed attempt whose offline mark is lost does not abort the run
\* or the subtask: the loop goes on to its next iteration, the failed worker
\* stays in the subtask's attempted set and is not the worker of the next
\* attempt although the registry still lists it, and the subtask eventually
\* returns a terminal result.
C19_LostMarkDoesNotAbort ==
    /\ [][\A i \in DOMAIN coro : \A w \in DOMAIN status :
            LostMarkStep(i, w) =>
               /\ run' = "gathering"
               /\ coro'[i].pc \in {"awaiting", "returned"}
               /\ coro'[i].attempt = coro[i].attempt + 1
               /\ w \in coro'[i].attempted_workers
               /\ w \in failed'
               /\ coro'[i].pc = "awaiting" =>
                     /\ coro'[i].current_worker # w
                     /\ coro'[i].current_worker \notin coro[i].attempted_workers
               /\ coro'[i].pc = "returned" =>
                     TerminalResultOf(coro'[i].ret, i)]_vars
    /\ \A i \in 0..(MaxTasks - 1) :
         AfterLostMark(i) ~> (PcOf(i) = "returned")

\* C19 witness: the mark of w1 was lost after the subtask failed on it; the
\* subtask moved to w2 although w1 is still listed active, and succeeded.
C19_Witness ==
    /\ Len(workers) = 2
    /\ tasks = 1
    /\ PcOf(0) = "returned"
    /\ sent[0] = <<1, 2>>
    /\ 1 \in failed
    /\ status[1] = "active"
    /\ coro[0].ret.status = "success"
    /\ coro[0].ret.worker_id = 2

\* C20: in every step of every interleaving, a subtask that has returned
\* sends nothing more and keeps its result; a successful result comes from
\* the subtask's last attempt, all its earlier attempts having failed; and
\* while every registry call goes through, a worker is offline once any
\* number of subtasks, one or several, have failed on it.
C20_OneSuccessAndIdempotentMark ==
    [][/\ \A i \in DOMAIN coro :
            PcOf(i) = "returned" =>
               /\ coro'[i] = coro[i]
               /\ sent'[i] = sent[i]
               /\ last_reply'[i] = last_reply[i]
       /\ \A i \in DOMAIN coro' :
            (coro'[i].pc = "returned" /\ coro'[i].ret.status = "success") =>
               /\ coro'[i].ret.worker_id = Last(sent'[i])
               /\ \A k \in 1..(Len(sent'[i]) - 1) : sent'[i][k] \in failed'
       /\ ~registry_raised' =>
            \A w \in failed' : status'[w] = "offline"]_vars

\* C20 witness: subtasks 0 and 2 both failed on w1 and both marked it
\* offline, both moved to w2, and subtask 0 has succeeded there while
\* subtask 2 is still waiting for w2's answer.
C20_Witness ==
    /\ Len(workers) = 2
    /\ tasks = 3
    /\ run = "gathering"
    /\ ~registry_raised
    /\ sent[0] = <<1, 2>>
    /\ sent[2] = <<1, 2>>
    /\ status[1] = "offline"
    /\ coro[0].pc = "returned"
    /\ coro[0].ret.status = "success"
    /\ coro[2].pc = "awaiting"

\* C21: the worker of every reassigned attempt is listed active by the
\* registry in the state in which the attempt is sent (and was before the
\* step); an attempt sent to a worker that is not active is therefore the
\* subtask's initial attempt.
C21_ReassignedAttemptOnActiveWorker ==
    [][\A i \in DOMAIN sent :
         Reassigned(i) =>
            /\ Len(sent'[i]) >= 2
            /\ status'[Last(sent'[i])] = "active"
            /\ status[Last(sent'[i])] = "active"]_vars

\* C21 witness: with three workers, the subtask failed on w1, which is now
\* offline, and its second attempt is pending on w2, which is active.
C21_Witness ==
    /\ Len(workers) = 3
    /\ tasks = 1
    /\ ~registry_raised
    /\ PcOf(0) = "awaiting"
    /\ sent[0] = <<1, 2>>
    /\ status[1] = "offline"
    /\ status[2] = "active"

\* The step in which main updates the task counters after a run.
CountersUpdated == run = "done" /\ run' = "updated"

\* C22: the update of the task counters leaves every worker's status as it
\* was and changes of a record at most total_tasks (by one) and last_ping,
\* and only for workers of the snapshot; so after a run whose offline marks
\* were all persisted, every worker that failed an attempt is offline once
\* the counters are updated, whether or not the counter writes went through.
C22_CounterUpdateKeepsStatus ==
    [][CountersUpdated =>
         /\ status' = status
         /\ DOMAIN stats' = DOMAIN stats
         /\ \A w \in DOMAIN stats :
              \/ stats'[w] = stats[w]
              \/ /\ w \in Range(workers)
                 /\ stats'[w] = [total_tasks |-> stats[w].total_tasks + 1,
                                 last_ping |-> "now"]
         /\ \A w \in DOMAIN status :
              status[w] = "offline" => status'[w] = "offline"
         /\ ~registry_raised =>
              \A w \in failed : status'[w] = "offline"]_vars

\* C22 witness: the subtask failed on w1, which was marked offline, and
\* succeeded on w2; both counters have then been updated and w1 is still
\* offline.
C22_Witness ==
    /\ run = "updated"
    /\ ~registry_raised
    /\ Len(workers) = 2
    /\ tasks = 1
    /\ sent[0] = <<1, 2>>
    /\ failed = {1}
    /\ status[1] = "offline"
    /\ status[2] = "active"
    /\ stats[1] = [total_tasks |-> 1, last_ping |-> "now"]
    /\ stats[2] = [total_tasks |-> 1, last_ping |-> "now"]

\* The subtasks whose initial attempt went to worker w.
InitiallyOn(w) == {i \in DOMAIN sent : sent[i][1] = w}

\* C23: in a run started from the page, there are at most as many subtasks
\* as workers in the snapshot, no two subtasks have the same initial
\* worker, and a worker that received attempts of two subtasks received at
\* least one of them as a reassigned attempt.
C23_InitialAssignmentInjective ==
    /\ tasks <= Len(workers)
    /\ \A w \in DOMAIN status : Cardinality(InitiallyOn(w)) <= 1
    /\ \A i \in DOMAIN sent : \A j \in DOMAIN sent :
         (i # j /\ Range(sent[i]) \cap Range(sent[j]) # {}) =>
            \A w \in Range(sent[i]) \cap Range(sent[j]) :
               \/ \E k \in 2..Len(sent[i]) : sent[i][k] = w
               \/ \E k \in 2..Len(sent[j]) : sent[j][k] = w

\* C23 witness: two subtasks started on w1 and w2; subtask 0 failed on w1
\* and was reassigned to w2, which thereby received attempts of both.
C23_Witness ==
    /\ Len(workers) = 2
    /\ tasks = 2
    /\ run = "gathering"
    /\ sent[0] = <<1, 2>>
    /\ sent[1] = <<2>>
    /\ PcOf(1) = "awaiting"

====
